---- MODULE Spec2Model ----
(***************************************************************************)
(* Model of the real-time notification client of followthrough-client:     *)
(* class WebSocketClient of src/lib/api/websocket-client.ts.               *)
(*                                                                         *)
(* The client owns at most one "current" socket.io socket (this.socket),   *)
(* but every socket it ever created keeps the handlers registered on it by *)
(* setupEventHandlers and by the promise inside connect(); those handlers  *)
(* close over `this`, so an event of any socket the client did not close   *)
(* itself still runs against the client's fields.  The transport is the    *)
(* environment: a socket that is not connected may emit connect or         *)
(* connect_error, a connected one may emit disconnect or a domain event.   *)
(*                                                                         *)
(* One action is one task of the single-threaded event loop: the handlers  *)
(* of one transport event run in registration order, followed by the       *)
(* promise continuations (the catch block of connect()) that they settle.  *)
(***************************************************************************)
EXTENDS Integers, Sequences, FiniteSets, TLC

\* ---------------------------------------------------------------- bounds
MaxSockets == 3          \* transports the client may open in one behaviour
DispatchSockets == 2     \* transports opened in one behaviour of SpecDispatch
MaxRegistrations == 2    \* listener registrations held at one time
MaxListeners == 2        \* distinct callbacks the consumer owns
MaxHookConnects == 2     \* runs of the hook's connect() in one behaviour

\* ------------------------------------------------------ program constants
DefaultMaxReconnectAttempts == 5
DefaultReconnectInterval == 3000

NoSocket == 0            \* this.socket === null
NoToken == "null"        \* this.jwtToken === null
NoDescriptor == "none"

SocketIds == 1..MaxSockets
Tokens == {"t1", "t2"}
Descriptors == {"u1", "u1/a@b.com"}
Listeners == 1..MaxListeners

LifecycleTags == {"connected", "disconnected", "error", "max_reconnect_reached"}
DomainTags == {"triage.completed"}
Tags == LifecycleTags \cup DomainTags
\* the event types the consumer of SpecDispatch listens to
DispatchTags == {"disconnected", "triage.completed"}

\* A listener is a consumer callback; listener 1 is one that throws.
Throws(l) == l = 1

\* the callback the useGmailTriage hook registers (it sets React state)
HookListener == 2

\* the closures the n-th run of setupWebSocketListeners creates: each run
\* makes new arrow functions, one per event, here one id for the whole set
HookClosures == {10 + n : n \in 1..MaxHookConnects}

\* a consumer callback that calls disconnect() on the client when it is invoked
ClosingListener == 0
Closes(l) == l = ClosingListener

\* the value undefined of a config field the consumer passes without a value
Undefined == -1

\* a >= b and a * b of JavaScript: with b or a undefined the comparison is
\* false and the product is NaN (kept as Undefined)
Geq(a, b) == b # Undefined /\ a >= b
Times(a, b) == IF a = Undefined THEN Undefined ELSE a * b

DEFAULT_CONFIG ==
  [autoReconnect |-> TRUE,
   maxReconnectAttempts |-> DefaultMaxReconnectAttempts,
   reconnectInterval |-> DefaultReconnectInterval]

\* { ...DEFAULT_CONFIG, ...supplied }: every own property of the supplied
\* object replaces the default, a property holding undefined included
Constructor(supplied) ==
  [f \in DOMAIN DEFAULT_CONFIG |->
     IF f \in DOMAIN supplied THEN supplied[f] ELSE DEFAULT_CONFIG[f]]

\* the config objects of a consumer that sets neither cap nor interval:
\* each of the two fields is omitted or passed as undefined
UnsuppliedConfigs ==
  {[f \in D |-> Undefined] : D \in SUBSET {"maxReconnectAttempts", "reconnectInterval"}}

\* The configurations a consumer constructs the client with
\* (WebSocketConfig merged over DEFAULT_CONFIG).
Configs ==
  [autoReconnect : BOOLEAN,
   maxReconnectAttempts : {1, 2, DefaultMaxReconnectAttempts},
   reconnectInterval : {1000}]

VARIABLES
  config,              \* this.config
  jwtToken,            \* this.jwtToken
  socket,              \* this.socket: id of the current socket, or NoSocket
  connectionState,     \* this.connectionState
  reconnectAttempts,   \* this.reconnectAttempts
  reconnectTimer,      \* this.reconnectTimer: "null", "pending", or "fired"
  timerDelay,          \* delay the pending timer was armed with (0: none)
  timers,              \* reconnect timers armed with setTimeout and neither
                       \* fired nor cleared yet
  isManualDisconnect,  \* this.isManualDisconnect
  eventListeners,      \* this.eventListeners: tag -> listeners, insertion order
  sockStatus,          \* per socket: "unused", "opening", "connected", "closed"
  promise,             \* per socket: the promise awaited by the connect() that made it
  openedBy,            \* who called the connect() that made this.socket
  sent,                \* per socket: descriptors subscribed on its current connection
  auth,                \* per socket: the token io() was given, presented at
                       \* each handshake of that socket
  emitted,             \* dispatches made by the last step, in order
  outbox,              \* messages sent to the server by the last step, in order
  lastCall,            \* the last step: operation, how it ended, whether it
                       \* is a disconnect() right after a disconnect(), and
                       \* how many armed timers it cleared
  declared,            \* history: the descriptor of the consumer's last subscribe()
  userClosed,          \* history: "no", or since the consumer's last connect()
                       \* it called disconnect(): on a "connected" or an "idle" client
  delays,              \* history: delays of the timers fired since the counter was reset
  hook                 \* the useGmailTriage hook: state (its connectionState),
                       \* ref (wsClientRef.current is set), awaits (sockets whose
                       \* connect() the hook awaits), due (the auto-connect
                       \* effect has to run for the state "disconnected")

vars == <<config, jwtToken, socket, connectionState, reconnectAttempts,
          reconnectTimer, timerDelay, timers, isManualDisconnect,
          eventListeners, sockStatus, promise, openedBy, sent, auth, emitted,
          outbox,
          lastCall, declared, userClosed, delays, hook>>

\* ------------------------------------------------------------- helpers
Opened(ss) == {i \in SocketIds : ss[i] # "unused"}

\* socket?.connected, for this.socket of the client record c
SocketConnected(c) == c.socket # NoSocket /\ c.sockStatus[c.socket] = "connected"

\* socket.id: socket.io defines it only while the socket is connected
SocketId(c) == IF SocketConnected(c) THEN c.socket ELSE 0

\* The client's fields as one record, with the outputs of the running step:
\* out (dispatches), msgs (messages to the server), result (how the step ends).
This ==
  [socket |-> socket, connectionState |-> connectionState,
   reconnectAttempts |-> reconnectAttempts, reconnectTimer |-> reconnectTimer,
   timerDelay |-> timerDelay, timers |-> timers,
   isManualDisconnect |-> isManualDisconnect,
   sockStatus |-> sockStatus, promise |-> promise, openedBy |-> openedBy,
   sent |-> sent, auth |-> auth, delays |-> delays, hook |-> hook,
   out |-> <<>>, msgs |-> <<>>, result |-> "ok", cleared |-> 0]

\* ------------------------------------------------------ Event Dispatcher
\* One listener call inside the try/catch of emitToListeners: the listener
\* is invoked, and an exception it throws is caught and logged.
\* (variant: the listener is called outside any try/catch)
InvokeListener_NoCatch(d, l) ==
  [d EXCEPT !.invoked = Append(@, l), !.escaped = Throws(l)]

InvokeListener(d, l) ==
  [d EXCEPT !.invoked = Append(@, l),
            !.caught = IF Throws(l) THEN Append(@, l) ELSE @]

RECURSIVE ForEachListener(_, _)
ForEachListener(ls, d) ==
  IF ls = <<>> \/ d.escaped THEN d
  ELSE ForEachListener(Tail(ls), InvokeListener(d, Head(ls)))

\* emitToListeners(event, data): the record of one dispatch
emitToListeners(event, data) ==
  ForEachListener(eventListeners[event],
    [event |-> event, data |-> data, invoked |-> <<>>, caught |-> <<>>,
     escaped |-> FALSE])

\* a closure of the hook invoked for event: the lifecycle closures call
\* setConnectionState, the others touch no state of the connection
HookListenerRuns(c, event) ==
  IF event \in {"connected", "disconnected", "error"}
  THEN [c EXCEPT !.hook.state = event]
  ELSE c

\* what the listeners invoked by one dispatch do to the client, in order:
\* a closing listener runs disconnect() before the next listener is called
RECURSIVE disconnect(_)
RECURSIVE ListenerEffects(_, _, _)
ListenerEffects(c, ls, event) ==
  IF ls = <<>> THEN c
  ELSE ListenerEffects(
         CASE Closes(Head(ls)) -> disconnect(c)
           [] Head(ls) \in HookClosures -> HookListenerRuns(c, event)
           [] OTHER -> c,
         Tail(ls), event)

Dispatch(c, event, data) ==
  LET d == emitToListeners(event, data)
  IN ListenerEffects([c EXCEPT !.out = Append(@, d),
                               !.result = IF d.escaped THEN "uncaught" ELSE @],
                     d.invoked, event)

\* ---------------------------------------------------- Connection Manager
\* clearTimeout of a timer that has fired already does nothing
clearReconnectTimer(c) ==
  LET armed == IF c.reconnectTimer = "pending" THEN 1 ELSE 0
  IN IF c.reconnectTimer # "null"
     THEN [c EXCEPT !.reconnectTimer = "null", !.timerDelay = 0,
                    !.timers = @ - armed, !.cleared = @ + armed]
     ELSE c

\* (variant: the attempt cap is never tested)
scheduleReconnect_NoCap(c) ==
  [clearReconnectTimer(c) EXCEPT
     !.reconnectTimer = "pending", !.timers = @ + 1,
     !.timerDelay = config.reconnectInterval * (c.reconnectAttempts + 1)]

\* (variant: exponential backoff, as the README describes it)
scheduleReconnect_Exponential(c) ==
  IF c.reconnectAttempts >= config.maxReconnectAttempts
  THEN Dispatch(c, "max_reconnect_reached", c.reconnectAttempts)
  ELSE [clearReconnectTimer(c) EXCEPT
          !.reconnectTimer = "pending", !.timers = @ + 1,
          !.timerDelay = config.reconnectInterval * (2 ^ c.reconnectAttempts)]

\* (variant: the timer is armed without clearing the one already pending)
scheduleReconnect_NoClear(c) ==
  IF c.reconnectAttempts >= config.maxReconnectAttempts
  THEN Dispatch(c, "max_reconnect_reached", c.reconnectAttempts)
  ELSE [c EXCEPT
          !.reconnectTimer = "pending", !.timers = @ + 1,
          !.timerDelay = config.reconnectInterval * (c.reconnectAttempts + 1)]

scheduleReconnect(c) ==
  IF Geq(c.reconnectAttempts, config.maxReconnectAttempts)
  THEN Dispatch(c, "max_reconnect_reached", c.reconnectAttempts)
  ELSE [clearReconnectTimer(c) EXCEPT
          !.reconnectTimer = "pending", !.timers = @ + 1,
          !.timerDelay = Times(config.reconnectInterval, c.reconnectAttempts + 1)]

\* (variant: the manual-disconnect flag is not consulted)
MaybeReconnect_IgnoresManual(c) ==
  IF config.autoReconnect THEN scheduleReconnect(c) ELSE c

\* if (this.config.autoReconnect && !this.isManualDisconnect) scheduleReconnect()
MaybeReconnect(c) ==
  IF config.autoReconnect /\ ~c.isManualDisconnect
  THEN scheduleReconnect(c)
  ELSE c

\* (variant: opening a transport also resets the attempt counter)
OpenTransport_ResetsAttempts(c, by) ==
  LET s == Cardinality(Opened(c.sockStatus)) + 1
  IN [c EXCEPT !.connectionState = "connecting",
               !.isManualDisconnect = FALSE,
               !.reconnectAttempts = 0,
               !.socket = s,
               !.sockStatus[s] = "opening",
               !.promise[s] = "pending",
               !.auth[s] = jwtToken,
               !.openedBy = by,
               !.result = "pending"]

\* this.socket = io(...): the new transport, and the promise connect() awaits
OpenTransport(c, by) ==
  LET s == Cardinality(Opened(c.sockStatus)) + 1
  IN [c EXCEPT !.connectionState = "connecting",
               !.isManualDisconnect = FALSE,
               !.socket = s,
               !.sockStatus[s] = "opening",
               !.promise[s] = "pending",
               !.auth[s] = jwtToken,
               !.openedBy = by,
               !.result = "pending"]

\* (variant: no test for a missing token)
connect_NoTokenCheck(c, by) ==
  IF SocketConnected(c) THEN [c EXCEPT !.result = "ok"]
  ELSE OpenTransport(c, by)

\* (variant: no test for an already connected socket)
connect_NoConnectedCheck(c, by) ==
  IF jwtToken = NoToken THEN [c EXCEPT !.result = "AuthenticationRequired"]
  ELSE OpenTransport(c, by)

\* connect(), up to the await: the two early exits, then a new transport
connect(c, by) ==
  IF SocketConnected(c) THEN [c EXCEPT !.result = "ok"]
  ELSE IF jwtToken = NoToken THEN [c EXCEPT !.result = "AuthenticationRequired"]
  ELSE OpenTransport(c, by)

\* connect() would call io() from this state
OpensTransport(c) == ~SocketConnected(c) /\ jwtToken # NoToken

\* (variant: the catch block only rethrows)
connectCatch_OnlyRethrows(c, i, why) ==
  IF c.promise[i] # "pending" THEN c
  ELSE [c EXCEPT !.promise[i] = "settled", !.result = why]

\* the catch block of connect(), run when the awaited promise of socket i rejects
connectCatch(c, i, why) ==
  IF c.promise[i] # "pending" THEN c
  ELSE [MaybeReconnect([c EXCEPT !.connectionState = "error",
                                 !.promise[i] = "settled"])
          EXCEPT !.result = why]

\* the promise's own "connect" listener: clearTimeout(timeout); resolve()
connectResolve(c, i) ==
  IF c.promise[i] # "pending" THEN c
  ELSE [c EXCEPT !.promise[i] = "settled", !.result = "resolved"]

\* setupEventHandlers: socket.on("connect")
onConnect(c) ==
  LET c1 == clearReconnectTimer(
              [c EXCEPT !.connectionState = "connected",
                        !.reconnectAttempts = 0, !.delays = <<>>])
  IN IF c1.socket = NoSocket
     THEN [c1 EXCEPT !.result = "TypeError"]    \* this.socket!.id on null
     ELSE Dispatch(c1, "connected", SocketId(c1))

\* (variant: the reconnect is decided before the listeners are called)
onDisconnect_DecidesFirst(c, reason) ==
  LET c1 == Dispatch([c EXCEPT !.connectionState = "disconnected"],
                     "disconnected", reason)
  IN IF config.autoReconnect /\ ~c.isManualDisconnect
     THEN scheduleReconnect(c1)
     ELSE c1

\* (variant: a close never schedules a reconnect)
onDisconnect_NoReconnect(c, reason) ==
  Dispatch([c EXCEPT !.connectionState = "disconnected"], "disconnected", reason)

\* setupEventHandlers: socket.on("disconnect")
onDisconnect(c, reason) ==
  MaybeReconnect(
    Dispatch([c EXCEPT !.connectionState = "disconnected"], "disconnected", reason))

\* setupEventHandlers: socket.on("connect_error")
onConnectError(c) ==
  MaybeReconnect(
    Dispatch([c EXCEPT !.connectionState = "error"], "error", "connect_error"))

\* socket.disconnect() of socket.io on this.socket: a connected socket emits
\* "disconnect" synchronously, then the socket is destroyed
socketDisconnect(c) ==
  LET s == c.socket
      c1 == IF c.sockStatus[s] = "connected"
            THEN onDisconnect([c EXCEPT !.sockStatus[s] = "closed", !.sent[s] = {}],
                              "io client disconnect")
            ELSE c
  IN [c1 EXCEPT !.sockStatus[s] = "closed", !.sent[s] = {}]

\* (variant: the attempt counter is left as it is)
disconnect_KeepsAttempts(c) ==
  LET c1 == clearReconnectTimer([c EXCEPT !.isManualDisconnect = TRUE])
      c2 == IF c1.socket # NoSocket
            THEN [socketDisconnect(c1) EXCEPT !.socket = NoSocket]
            ELSE c1
  IN [c2 EXCEPT !.connectionState = "disconnected"]

disconnect(c) ==
  LET c1 == clearReconnectTimer([c EXCEPT !.isManualDisconnect = TRUE])
      c2 == IF c1.socket # NoSocket
            THEN [socketDisconnect(c1) EXCEPT !.socket = NoSocket]
            ELSE c1
  IN [c2 EXCEPT !.connectionState = "disconnected",
                !.reconnectAttempts = 0, !.delays = <<>>]

\* the reconnect timer's callback: this.reconnectAttempts++; await this.connect()
\* (this.reconnectTimer keeps the handle of the timer that fired)
reconnectCallback(c) ==
  connect([c EXCEPT !.reconnectTimer = IF @ = "pending" THEN "fired" ELSE @,
                    !.timers = @ - 1,
                    !.reconnectAttempts = @ + 1,
                    !.delays = Append(@, c.timerDelay),
                    !.timerDelay = 0], "timer")

\* --------------------------------------------------- Subscription Manager
subscribe(c, params) ==
  IF ~SocketConnected(c) THEN [c EXCEPT !.result = "NotConnected"]
  ELSE [c EXCEPT !.msgs = Append(@, <<"subscribe", params>>),
                 !.sent[c.socket] = @ \cup {params}]

unsubscribe(c, params) ==
  IF ~SocketConnected(c) THEN [c EXCEPT !.result = "NotConnected"]
  ELSE [c EXCEPT !.msgs = Append(@, <<"unsubscribe", params>>),
                 !.sent[c.socket] = @ \ {params}]

\* ------------------------------------------------------- listener registry
Registrations(reg) ==
  LET RECURSIVE Sum(_)
      Sum(S) == IF S = {} THEN 0
                ELSE LET t == CHOOSE x \in S : TRUE
                     IN Len(reg[t]) + Sum(S \ {t})
  IN Sum(Tags)

InSeq(x, q) == \E k \in 1..Len(q) : q[k] = x

Without(q, x) == SelectSeq(q, LAMBDA y : y # x)

\* (variant: the listeners of an event are kept in an array, repeats included)
on_NoDedup(reg, event, listener) ==
  [reg EXCEPT ![event] = Append(@, listener)]

\* (variant: a new listener is put in front of the earlier ones)
on_Prepend(reg, event, listener) ==
  IF InSeq(listener, reg[event]) THEN reg
  ELSE [reg EXCEPT ![event] = <<listener>> \o @]

\* on(event, listener): Set.add keeps insertion order and ignores a repeat
on(reg, event, listener) ==
  IF InSeq(listener, reg[event]) THEN reg
  ELSE [reg EXCEPT ![event] = Append(@, listener)]

\* off(event, listener)
off(reg, event, listener) == [reg EXCEPT ![event] = Without(@, listener)]

\* removeAllListeners(event?)
removeAllListeners(reg, event) ==
  IF event = "all" THEN [t \in Tags |-> <<>>]
  ELSE [reg EXCEPT ![event] = <<>>]

\* ----------------------------------------------------------------- Init
\* the fields of a client just constructed, the config apart: the token
\* comes from localStorage, if any; no hook has run
Constructed ==
  /\ jwtToken \in {NoToken, "t1"}
  /\ socket = NoSocket
  /\ connectionState = "disconnected"
  /\ reconnectAttempts = 0
  /\ reconnectTimer = "null"
  /\ timerDelay = 0
  /\ timers = 0
  /\ isManualDisconnect = FALSE
  /\ eventListeners = [t \in Tags |-> <<>>]
  /\ sockStatus = [i \in SocketIds |-> "unused"]
  /\ promise = [i \in SocketIds |-> "none"]
  /\ openedBy = "none"
  /\ sent = [i \in SocketIds |-> {}]
  /\ auth = [i \in SocketIds |-> NoToken]
  /\ emitted = <<>>
  /\ outbox = <<>>
  /\ lastCall = [op |-> "new", result |-> "ok", again |-> FALSE, cleared |-> 0]
  /\ declared = NoDescriptor
  /\ userClosed = "no"
  /\ delays = <<>>

\* the hook is not mounted
NoHook == [state |-> "disconnected", ref |-> FALSE, awaits |-> {}, due |-> FALSE]

\* new WebSocketClient(config)
Init ==
  /\ config \in Configs
  /\ Constructed
  /\ hook = NoHook

\* ------------------------------------------------- useGmailTriage hook
\* the hook's connect() after await client.connect(): client.subscribe(...)
\* and wsClientRef.current = client; its catch block sets the state "error"
HookSubscribes(c) ==
  LET c1 == subscribe(c, "u1")
  IN IF c1.result = "NotConnected"
     THEN [c EXCEPT !.hook.state = "error"]
     ELSE [c1 EXCEPT !.hook.ref = TRUE]

\* the continuation of a hook connect() whose client.connect() settled in
\* the running step
HookSettle(c) ==
  LET done == {i \in c.hook.awaits : promise[i] = "pending" /\ c.promise[i] = "settled"}
  IN IF done = {} THEN c
     ELSE IF c.result = "resolved"
          THEN HookSubscribes([c EXCEPT !.hook.awaits = @ \ done])
          ELSE [c EXCEPT !.hook.awaits = @ \ done, !.hook.state = "error"]

\* The step ends with the client as in record c0, once the continuations of
\* the promises it settled have run.
Commit(c0, op) ==
  LET c == HookSettle(c0) IN
  /\ hook' = [c.hook EXCEPT
                !.due = /\ c.hook.state = "disconnected"
                        /\ \/ hook.state # "disconnected"
                           \/ hook.due /\ op # "hook.effect"]
  /\ socket' = c.socket
  /\ connectionState' = c.connectionState
  /\ reconnectAttempts' = c.reconnectAttempts
  /\ reconnectTimer' = c.reconnectTimer
  /\ timerDelay' = c.timerDelay
  /\ timers' = c.timers
  /\ isManualDisconnect' = c.isManualDisconnect
  /\ sockStatus' = c.sockStatus
  /\ promise' = c.promise
  /\ openedBy' = c.openedBy
  /\ sent' = c.sent
  /\ auth' = c.auth
  /\ delays' = c.delays
  /\ emitted' = c.out
  /\ outbox' = c.msgs
  /\ lastCall' = [op |-> op, result |-> c.result,
                  again |-> op = "disconnect" /\ lastCall.op = "disconnect",
                  cleared |-> c.cleared]
  /\ userClosed' =
       CASE op \in {"disconnect", "hook.disconnect"} /\ SocketConnected(This) -> "connected"
         [] op \in {"disconnect", "hook.disconnect"} /\ userClosed = "no" -> "idle"
         [] op \in {"connect", "hook.connect"} -> "no"
         [] OTHER -> userClosed
  /\ UNCHANGED config

\* ------------------------------------------------------ consumer's calls
\* (variant: the new token is also given to the sockets already created)
SetToken_Retroactive(t) ==
  /\ jwtToken' = t
  /\ Commit([This EXCEPT !.auth = [i \in SocketIds |->
                IF sockStatus[i] = "unused" THEN NoToken ELSE t]], "setToken")
  /\ UNCHANGED <<eventListeners, declared>>

SetToken(t) ==
  /\ jwtToken' = t
  /\ Commit(This, "setToken")
  /\ UNCHANGED <<eventListeners, declared>>

\* connect(), by the consumer; budget bounds the transports of one behaviour
ConnectWithin(budget) ==
  /\ OpensTransport(This) => Cardinality(Opened(sockStatus)) < budget
  /\ Commit(connect(This, "consumer"), "connect")
  /\ UNCHANGED <<jwtToken, eventListeners, declared>>

Connect == ConnectWithin(MaxSockets)

\* (variant: disconnect() also empties the listener registry)
Disconnect_ClearsListeners ==
  /\ Commit(disconnect(This), "disconnect")
  /\ eventListeners' = [t \in Tags |-> <<>>]
  /\ UNCHANGED <<jwtToken, declared>>

Disconnect ==
  /\ Commit(disconnect(This), "disconnect")
  /\ UNCHANGED <<jwtToken, eventListeners, declared>>

Subscribe(d) ==
  LET c == subscribe(This, d)
  IN /\ Commit(c, "subscribe")
     /\ declared' = IF c.result = "ok" THEN d ELSE declared
     /\ UNCHANGED <<jwtToken, eventListeners>>

Unsubscribe(d) ==
  LET c == unsubscribe(This, d)
  IN /\ Commit(c, "unsubscribe")
     /\ declared' = IF c.result = "ok" /\ declared = d THEN NoDescriptor ELSE declared
     /\ UNCHANGED <<jwtToken, eventListeners>>

On(t, l) ==
  /\ Registrations(eventListeners) < MaxRegistrations
  /\ eventListeners' = on(eventListeners, t, l)
  /\ Commit(This, "on")
  /\ UNCHANGED <<jwtToken, declared>>

Off(t, l) ==
  /\ eventListeners' = off(eventListeners, t, l)
  /\ Commit(This, "off")
  /\ UNCHANGED <<jwtToken, declared>>

RemoveAllListeners(t) ==
  /\ eventListeners' = removeAllListeners(eventListeners, t)
  /\ Commit(This, "removeAllListeners")
  /\ UNCHANGED <<jwtToken, declared>>

\* setupWebSocketListeners of the useGmailTriage hook: one callback l
\* registered with on() for every event the hook listens to
SetupWebSocketListeners(l) ==
  /\ \A t \in Tags : ~InSeq(l, eventListeners[t])
  /\ eventListeners' = [t \in Tags |-> on(eventListeners, t, l)[t]]
  /\ Commit(This, "on")
  /\ UNCHANGED <<jwtToken, declared>>

\* connect() of the hook, called by the consumer or by the auto-connect
\* effect (op): new listeners on the shared client, then client.connect()
HookConnect(op) ==
  LET n == Cardinality({l \in HookClosures : InSeq(l, eventListeners["connected"])})
      c1 == connect([This EXCEPT !.hook.state = "connecting"], "hook")
      c2 == CASE c1.result = "pending" -> [c1 EXCEPT !.hook.awaits = @ \cup {c1.socket}]
              [] c1.result = "ok" -> HookSubscribes(c1)
              [] OTHER -> [c1 EXCEPT !.hook.state = "error"]
  IN /\ n < MaxHookConnects
     /\ OpensTransport(This) => Cardinality(Opened(sockStatus)) < MaxSockets
     /\ eventListeners' = [t \in Tags |-> on(eventListeners, t, 10 + n + 1)[t]]
     /\ Commit(c2, op)
     /\ UNCHANGED <<jwtToken, declared>>

HookConnectCall == HookConnect("hook.connect")

\* the effect [autoConnect, isAuthenticated, connectionState, connect] of a
\* hook with autoConnect and an authenticated user
AutoConnectEffect ==
  /\ hook.due
  /\ hook.state = "disconnected"
  /\ HookConnect("hook.effect")

\* disconnect() of the hook
HookDisconnect ==
  LET c1 == IF hook.ref THEN [disconnect(This) EXCEPT !.hook.ref = FALSE] ELSE This
  IN /\ Commit([c1 EXCEPT !.hook.state = "disconnected"], "hook.disconnect")
     /\ UNCHANGED <<jwtToken, eventListeners, declared>>

\* ------------------------------------------------- transport and timers
\* socket i completes its handshake: the "connect" listeners in registration
\* order; an exception of the first one keeps the second from running
SocketConnect(i) ==
  /\ sockStatus[i] = "opening"
  /\ LET c1 == onConnect([This EXCEPT !.sockStatus[i] = "connected"])
         c2 == IF c1.result \in {"TypeError", "uncaught"} THEN c1
               ELSE connectResolve(c1, i)
     IN Commit(c2, "socket.connect")
  /\ UNCHANGED <<jwtToken, eventListeners, declared>>

\* socket i fails to connect: the "connect_error" listeners, then the catch
\* block of the connect() that awaits it
SocketConnectError(i) ==
  /\ sockStatus[i] = "opening"
  /\ Commit(connectCatch(onConnectError(This), i, "TransportError"), "socket.connect_error")
  /\ UNCHANGED <<jwtToken, eventListeners, declared>>

\* the server or the network closes connected socket i
SocketDisconnect(i) ==
  /\ sockStatus[i] = "connected"
  /\ Commit(onDisconnect([This EXCEPT !.sockStatus[i] = "opening", !.sent[i] = {}],
                         "transport close"),
            "socket.disconnect")
  /\ UNCHANGED <<jwtToken, eventListeners, declared>>

\* the server pushes a domain event on connected socket i
ServerEvent(i, t) ==
  /\ sockStatus[i] = "connected"
  /\ Commit(Dispatch(This, t, "payload"), "socket.event")
  /\ UNCHANGED <<jwtToken, eventListeners, declared>>

\* the 15 s timeout inside connect() fires before the promise settled
ConnectTimeout(i) ==
  /\ promise[i] = "pending"
  /\ Commit(connectCatch(This, i, "HandshakeTimeout"), "connect.timeout")
  /\ UNCHANGED <<jwtToken, eventListeners, declared>>

\* an armed reconnect timer fires
ReconnectTimerFiresWithin(budget) ==
  /\ timers > 0
  /\ OpensTransport(This) => Cardinality(Opened(sockStatus)) < budget
  /\ Commit(reconnectCallback(This), "timer")
  /\ UNCHANGED <<jwtToken, eventListeners, declared>>

ReconnectTimerFires == ReconnectTimerFiresWithin(MaxSockets)

\* ---------------------------------------------------------------- Spec
\* The connection life cycle: the consumer registers its listeners as the
\* hook does, connects and disconnects; the transport and the timers act.
Next ==
  \/ SetupWebSocketListeners(HookListener)
  \/ Connect
  \/ Disconnect
  \/ \E d \in Descriptors : Subscribe(d)
  \/ \E d \in Descriptors : Unsubscribe(d)
  \/ \E i \in SocketIds, t \in DomainTags : ServerEvent(i, t)
  \/ \E i \in SocketIds : SocketConnect(i)
  \/ \E i \in SocketIds : SocketConnectError(i)
  \/ \E i \in SocketIds : SocketDisconnect(i)
  \/ \E i \in SocketIds : ConnectTimeout(i)
  \/ ReconnectTimerFires

Spec == Init /\ [][Next]_vars

\* Spec with the scheduling the event loop guarantees: a pending reconnect
\* timer fires, and so does the 15 s timer of a connect() whose promise is
\* still pending.  The transport and the consumer are under no obligation.
SpecFair ==
  /\ Spec
  /\ WF_vars(ReconnectTimerFires)
  /\ WF_vars(\E i \in SocketIds : ConnectTimeout(i))

\* ------------------------------------------------------- SpecDispatch
\* The Event Dispatcher: the consumer adds and removes listeners at any
\* time while a bounded number of transports deliver events.
NextDispatch ==
  \/ \E t \in DispatchTags, l \in Listeners : On(t, l)
  \/ \E t \in DispatchTags, l \in Listeners : Off(t, l)
  \/ \E t \in DispatchTags \cup {"all"} : RemoveAllListeners(t)
  \/ ConnectWithin(DispatchSockets)
  \/ Disconnect
  \/ \E i \in SocketIds, t \in DomainTags : ServerEvent(i, t)
  \/ \E i \in SocketIds : SocketConnect(i)
  \/ \E i \in SocketIds : SocketConnectError(i)
  \/ \E i \in SocketIds : SocketDisconnect(i)
  \/ \E i \in SocketIds : ConnectTimeout(i)
  \/ ReconnectTimerFiresWithin(DispatchSockets)

\* ----------------------------------------------------------- SpecToken
\* A consumer that refreshes the token between connection attempts.
NextToken ==
  \/ \E t \in Tokens : SetToken(t)
  \/ ConnectWithin(DispatchSockets)
  \/ Disconnect
  \/ \E i \in SocketIds : SocketConnect(i)
  \/ \E i \in SocketIds : SocketConnectError(i)
  \/ \E i \in SocketIds : SocketDisconnect(i)
  \/ \E i \in SocketIds : ConnectTimeout(i)
  \/ ReconnectTimerFiresWithin(DispatchSockets)

\* the client is constructed with a reconnect cap of 1
InitToken ==
  /\ Init
  /\ config.maxReconnectAttempts = 1

SpecToken == InitToken /\ [][NextToken]_vars

\* ---------------------------------------------------------- SpecConfig
\* The client of a consumer that sets neither cap nor interval, while the
\* server cannot be reached: every handshake fails or times out.
NextConfig ==
  \/ Connect
  \/ Disconnect
  \/ \E i \in SocketIds : SocketConnectError(i)
  \/ \E i \in SocketIds : ConnectTimeout(i)
  \/ ReconnectTimerFires

InitConfig ==
  /\ \E supplied \in UnsuppliedConfigs : config = Constructor(supplied)
  /\ Constructed
  /\ hook = NoHook

SpecConfig == InitConfig /\ [][NextConfig]_vars

\* ------------------------------------------------------------ SpecHook
\* A page that uses the useGmailTriage hook with autoConnect, an
\* authenticated user and a stored token; the hook is the only consumer of
\* the singleton client.
NextHook ==
  \/ HookConnectCall
  \/ AutoConnectEffect
  \/ HookDisconnect
  \/ \E i \in SocketIds, t \in DomainTags : ServerEvent(i, t)
  \/ \E i \in SocketIds : SocketConnect(i)
  \/ \E i \in SocketIds : SocketConnectError(i)
  \/ \E i \in SocketIds : SocketDisconnect(i)
  \/ \E i \in SocketIds : ConnectTimeout(i)
  \/ ReconnectTimerFires

\* the hook is mounted with a websocket option that sets cap 1 and interval
\* 1000; its auto-connect effect is due
InitHook ==
  /\ config = Constructor([maxReconnectAttempts |-> 1, reconnectInterval |-> 1000])
  /\ Constructed
  /\ jwtToken # NoToken
  /\ hook = [NoHook EXCEPT !.due = TRUE]

SpecHook == InitHook /\ [][NextHook]_vars

\* ------------------------------------------------------- SpecReentrant
\* A consumer whose listener calls disconnect() from inside the dispatch of
\* the lifecycle events it registered it for.
NextReentrant ==
  \/ \E t \in LifecycleTags : On(t, ClosingListener)
  \/ \E t \in LifecycleTags : Off(t, ClosingListener)
  \/ ConnectWithin(DispatchSockets)
  \/ \E i \in SocketIds : SocketConnect(i)
  \/ \E i \in SocketIds : SocketConnectError(i)
  \/ \E i \in SocketIds : SocketDisconnect(i)
  \/ \E i \in SocketIds : ConnectTimeout(i)
  \/ ReconnectTimerFiresWithin(DispatchSockets)

\* the client is constructed with a stored token and a reconnect cap of 1
InitDispatch ==
  /\ Init
  /\ jwtToken # NoToken
  /\ config.maxReconnectAttempts = 1

SpecDispatch == InitDispatch /\ [][NextDispatch]_vars

SpecReentrant == InitDispatch /\ [][NextReentrant]_vars

\* ============================================================ properties
Cap == config.maxReconnectAttempts

\* how many dispatches of event t the sequence q of dispatches holds
Dispatched(q, t) == Cardinality({k \in 1..Len(q) : q[k].event = t})

\* a connect() is waiting for the handshake of its transport
Handshaking == \E i \in SocketIds : sockStatus[i] = "opening" /\ promise[i] = "pending"

\* C1: a connect() made while an earlier connect() still waits for its
\* handshake (state "connecting") opens no second transport.
C1_NoSecondTransport ==
  [][(lastCall'.op = "connect" /\ connectionState = "connecting" /\ Handshaking)
       => Opened(sockStatus') = Opened(sockStatus)]_vars

\* C2: once an automatic reconnect has succeeded, the descriptor the consumer
\* last declared has been sent again as a subscribe message on the new
\* connection.
C2_SubscriptionReplayed ==
  (openedBy = "timer" /\ SocketConnected(This) /\ declared # NoDescriptor)
    => declared \in sent[socket]

\* C3: from disconnect() until the consumer's next connect(), no reconnect
\* timer is pending and the attempt counter is 0, and a close event of a
\* transport leaves the state "disconnected".
C3_ManualDisconnectSuppressesReconnect ==
  userClosed # "no" =>
    /\ reconnectTimer # "pending"
    /\ reconnectAttempts = 0
    /\ lastCall.op = "socket.disconnect" => connectionState = "disconnected"

C3_Witness ==
  /\ userClosed = "connected"
  /\ lastCall.op = "socket.disconnect"
  /\ config.autoReconnect
  /\ connectionState = "disconnected"

\* C4: between two resets of the attempt counter at most Cap reconnect timers
\* fire; once the counter has reached Cap no timer is pending, and the next
\* transport is opened by a connect() of the consumer.
C4_CapEnforced ==
  [][/\ Len(delays') <= Cap
     /\ reconnectAttempts' >= Cap => reconnectTimer' # "pending"
     /\ (reconnectAttempts >= Cap /\ Opened(sockStatus') # Opened(sockStatus))
          => lastCall'.op = "connect"]_vars

C4_Witness ==
  /\ Cap = 2
  /\ reconnectAttempts = Cap
  /\ Cardinality(Opened(sockStatus)) = 3
  /\ lastCall.result = "TransportError"
  /\ reconnectTimer # "pending"
  /\ Dispatched(emitted, "max_reconnect_reached") > 0

\* C5: the failure of the last permitted attempt dispatches
\* "max_reconnect_reached" exactly once, be it a connect_error or the timeout.
C5_ExhaustedExactlyOnce ==
  (/\ lastCall.result \in {"TransportError", "HandshakeTimeout"}
   /\ config.autoReconnect /\ ~isManualDisconnect
   /\ reconnectAttempts >= Cap)
    => Dispatched(emitted, "max_reconnect_reached") = 1

C7_DisconnectIdempotent ==
  lastCall.op = "disconnect" =>
    /\ lastCall.result = "ok"
    /\ connectionState = "disconnected"
    /\ reconnectTimer = "null"
    /\ reconnectAttempts = 0
    /\ socket = NoSocket

C7_Witness ==
  /\ lastCall.op = "disconnect"
  /\ lastCall.again
  /\ \E i \in SocketIds : sockStatus[i] = "closed"

\* C8: connect() without a token fails with AuthenticationRequired, opens no
\* transport, arms no timer and leaves state, counter and timer as they were.
C8_NoTokenNoTransport ==
  [][(lastCall'.op = "connect" /\ jwtToken = NoToken)
       => /\ lastCall'.result = "AuthenticationRequired"
          /\ Opened(sockStatus') = {}
          /\ reconnectTimer' # "pending"
          /\ UNCHANGED <<socket, sockStatus, promise, connectionState,
                         reconnectAttempts, reconnectTimer, timerDelay>>]_vars

C8_Witness ==
  /\ lastCall.op = "connect"
  /\ lastCall.result = "AuthenticationRequired"
  /\ jwtToken = NoToken

\* C9: every dispatch invokes all the listeners registered for its event, in
\* order, whichever of them throw, and no exception leaves the dispatch.
C9_ListenerIsolation ==
  /\ lastCall.result # "uncaught"
  /\ \A k \in 1..Len(emitted) :
       /\ ~emitted[k].escaped
       /\ emitted[k].invoked = eventListeners[emitted[k].event]

C9_Witness ==
  \E k \in 1..Len(emitted) :
    /\ Len(emitted[k].invoked) >= 2
    /\ Throws(emitted[k].invoked[1])
    /\ emitted[k].caught = <<emitted[k].invoked[1]>>

\* C10: connect() on a connected client succeeds at once and changes neither
\* the transports nor state, counter, timer, manual flag or listeners.
C10_ConnectedConnectIsNoOp ==
  [][(lastCall'.op = "connect" /\ connectionState = "connected"
        /\ SocketConnected(This))
       => /\ lastCall'.result = "ok"
          /\ UNCHANGED <<socket, sockStatus, promise, connectionState,
                         reconnectAttempts, reconnectTimer, timerDelay,
                         isManualDisconnect, eventListeners>>]_vars

C10_Witness ==
  /\ lastCall.op = "connect"
  /\ lastCall.result = "ok"
  /\ connectionState = "connected"

\* C11: when the handshake of a transport succeeds, the state is "connected",
\* the attempt counter is 0, no reconnect timer is pending, and exactly one
\* "connected" event is dispatched, carrying the id of that transport.
C11_HandshakeSuccess ==
  [][\A i \in SocketIds :
       (sockStatus[i] = "opening" /\ sockStatus'[i] = "connected")
         => /\ connectionState' = "connected"
            /\ reconnectAttempts' = 0
            /\ reconnectTimer' # "pending"
            /\ Dispatched(emitted', "connected") = 1
            /\ \A k \in 1..Len(emitted') :
                 emitted'[k].event = "connected" => emitted'[k].data = i]_vars

\* C12: subscribe() and unsubscribe() succeed only in state "connected"; a
\* call that fails with not-connected sends no message to the server.
C12_SubscribeOnlyWhenConnected ==
  lastCall.op \in {"subscribe", "unsubscribe"} =>
    /\ lastCall.result = "ok" => connectionState = "connected"
    /\ lastCall.result # "ok" => (lastCall.result = "NotConnected" /\ outbox = <<>>)

\* C13: at most one transport opened by the client is open (connecting or
\* connected) at any time.
C13_AtMostOneOpenTransport ==
  Cardinality({i \in SocketIds : sockStatus[i] \in {"opening", "connected"}}) <= 1

\* how many times listener l occurs in the sequence q of listeners
Calls(q, l) == Cardinality({k \in 1..Len(q) : q[k] = l})

C15_UnplannedClose ==
  [][(/\ lastCall'.op = "socket.disconnect"
      /\ connectionState = "connected"
      /\ SocketConnected(This)
      /\ sockStatus'[socket] # "connected")
       => /\ connectionState' = "disconnected"
          /\ Dispatched(emitted', "disconnected") = 1
          /\ (reconnectTimer' = "pending") = config.autoReconnect]_vars

C15_Witness ==
  /\ lastCall.op = "socket.disconnect"
  /\ Opened(sockStatus) = {1}
  /\ socket = 1
  /\ connectionState = "disconnected"
  /\ Dispatched(emitted, "disconnected") = 1
  /\ reconnectTimer = "pending"

\* C16: when the 15 s deadline of a connect() passes before its handshake
\* completed, connect() rejects with a timeout error, the state becomes
\* "error", and the reconnect policy runs as after a handshake error: with
\* autoReconnect and no manual disconnect a timer is armed (or, at the cap,
\* the exhaustion event is dispatched); otherwise nothing is scheduled.
C16_TimeoutIsFailure ==
  [][lastCall'.op = "connect.timeout"
       => /\ lastCall'.result = "HandshakeTimeout"
          /\ connectionState' = "error"
          /\ IF config.autoReconnect /\ ~isManualDisconnect
             THEN IF reconnectAttempts < Cap
                  THEN /\ reconnectTimer' = "pending"
                       /\ timerDelay' = config.reconnectInterval * (reconnectAttempts + 1)
                  ELSE Dispatched(emitted', "max_reconnect_reached") = 1
             ELSE /\ reconnectTimer' # "pending"
                  /\ emitted' = <<>>]_vars

C16_Witness ==
  /\ lastCall.op = "connect.timeout"
  /\ lastCall.result = "HandshakeTimeout"
  /\ connectionState = "error"
  /\ reconnectTimer = "pending"
  /\ socket # NoSocket
  /\ sockStatus[socket] = "opening"

\* the behaviour may still open a transport
TransportsLeft == Cardinality(Opened(sockStatus)) < MaxSockets

\* C17: whenever the state is "error", in a client with autoReconnect that
\* the consumer did not disconnect, the state eventually is another one
\* (in a behaviour that never runs out of transports).
C17_ErrorIsTransient ==
  (connectionState = "error" /\ config.autoReconnect /\ ~isManualDisconnect)
    ~> (connectionState # "error" \/ ~TransportsLeft)

\* C18: at most one reconnect timer is armed at any time, the one
\* this.reconnectTimer refers to; a disconnect or connect_error event that
\* arrives while a timer is pending clears that timer before arming its own.
C18_SingleTimer ==
  /\ timers <= 1
  /\ (timers = 1) = (reconnectTimer = "pending")

C18_Witness ==
  /\ lastCall.op = "socket.disconnect"
  /\ lastCall.cleared = 1
  /\ reconnectTimer = "pending"
  /\ timers = 1

\* the closing listener ran in dispatch d of a lifecycle event
ClosedDuring(d) == d.event \in LifecycleTags /\ InSeq(ClosingListener, d.invoked)

\* C19: after a step in which a listener called disconnect() during the
\* dispatch of a lifecycle event, no reconnect timer is armed or pending, the
\* client holds no socket and the attempt is marked as a manual disconnect.
C19_DisconnectInsideListener ==
  (\E k \in 1..Len(emitted) : ClosedDuring(emitted[k])) =>
    /\ timers = 0
    /\ reconnectTimer # "pending"
    /\ socket = NoSocket
    /\ isManualDisconnect

C19_Witness ==
  /\ lastCall.op = "socket.disconnect"
  /\ config.autoReconnect
  /\ Len(emitted) = 1
  /\ emitted[1].event = "disconnected"
  /\ ClosedDuring(emitted[1])
  /\ lastCall.cleared = 1
  /\ timers = 0

\* C20: only on(), off() and removeAllListeners() change the listener
\* registry; every other step (connect, disconnect, transport events,
\* timeouts, timer firings) leaves it as it is, and each of its dispatches
\* reaches all the listeners registered for the event.
C20_RegistryFrame ==
  [][lastCall'.op \notin {"on", "off", "removeAllListeners"}
       => /\ eventListeners' = eventListeners
          /\ \A k \in 1..Len(emitted') :
               emitted'[k].invoked = eventListeners[emitted'[k].event]]_vars

C20_Witness ==
  /\ lastCall.op = "socket.event"
  /\ openedBy = "timer"
  /\ socket # NoSocket
  /\ promise[socket] = "settled"
  /\ SocketConnected(This)
  /\ reconnectAttempts = 0
  /\ Len(emitted) = 1
  /\ emitted[1].invoked # <<>>
  /\ emitted[1].invoked = eventListeners[emitted[1].event]

\* C21: setToken(t) leaves every transport, its token and the connection
\* state as they are, and every transport opened afterwards, by connect() or
\* by the reconnect timer, is given the token set last.
C21_TokenForNextHandshake ==
  [][/\ lastCall'.op = "setToken"
          => UNCHANGED <<socket, sockStatus, auth, promise, connectionState,
                         reconnectTimer, reconnectAttempts>>
     /\ \A i \in SocketIds :
          (sockStatus[i] = "unused" /\ sockStatus'[i] # "unused")
            => /\ lastCall'.op \in {"connect", "timer"}
               /\ auth'[i] = jwtToken
               /\ jwtToken' = jwtToken]_vars

C21_Witness ==
  /\ lastCall.op = "timer"
  /\ openedBy = "timer"
  /\ socket = 2
  /\ auth[1] = "t1"
  /\ auth[2] = "t2"
  /\ sockStatus[2] = "opening"

\* C22: from disconnect() until the consumer's next connect() the state is
\* "disconnected".
C22_StaysDisconnected ==
  userClosed # "no" => connectionState = "disconnected"

\* sequence p is the beginning of sequence q
IsPrefix(p, q) == Len(p) <= Len(q) /\ SubSeq(q, 1, Len(p)) = p

\* C23: a message from the server is dispatched in the step that receives
\* it, before any later message, with its own type and payload; the
\* listeners of a type are invoked in the order they were registered: on()
\* puts a new listener after the earlier ones, off() and removeAllListeners()
\* keep the order of the ones that stay.
C23_OrderPreserved ==
  [][/\ lastCall'.op = "on"
          => \A t \in Tags : IsPrefix(eventListeners[t], eventListeners'[t])
     /\ lastCall'.op \in {"off", "removeAllListeners"}
          => \A t \in Tags :
               eventListeners'[t] =
                 SelectSeq(eventListeners[t],
                           LAMBDA y : InSeq(y, eventListeners'[t]))
     /\ \A k \in 1..Len(emitted') :
          emitted'[k].invoked = eventListeners'[emitted'[k].event]
     /\ lastCall'.op = "socket.event"
          => /\ Len(emitted') = 1
             /\ emitted'[1].event \in DomainTags
             /\ emitted'[1].data = "payload"]_vars

C23_Witness ==
  /\ lastCall.op = "socket.event"
  /\ Len(emitted) = 1
  /\ emitted[1].invoked = <<2, 1>>

\* C24: in a client whose consumer set neither cap nor interval, the cap is
\* the default 5 and the interval the default 3000, and the attempt counter
\* never exceeds the cap.
C24_DefaultsApply ==
  /\ config.maxReconnectAttempts = DefaultMaxReconnectAttempts
  /\ config.reconnectInterval = DefaultReconnectInterval
  /\ reconnectAttempts <= DefaultMaxReconnectAttempts

\* C25: the state is "connected" exactly when the client's current transport
\* is connected.
C25_StateMatchesTransport ==
  (connectionState = "connected") = SocketConnected(This)

\* C26: while the client's current transport is connected, no reconnect
\* timer is pending.
C26_NoTimerWhileConnected ==
  SocketConnected(This) => reconnectTimer # "pending"

\* C27: when a connect() made by the consumer, with no other attempt in
\* flight, fails (handshake error or timeout) in a client with autoReconnect
\* and no manual disconnect, a reconnect timer is armed and the exhaustion
\* event is not dispatched, whatever happened before that connect().
C27_FreshBudgetAfterConnect ==
  [][(/\ lastCall'.op \in {"socket.connect_error", "connect.timeout"}
      /\ lastCall'.result \in {"TransportError", "HandshakeTimeout"}
      /\ openedBy = "consumer"
      /\ socket # NoSocket
      /\ promise[socket] = "pending"
      /\ promise'[socket] = "settled"
      /\ \A j \in SocketIds \ {socket} : promise[j] # "pending"
      /\ config.autoReconnect
      /\ ~isManualDisconnect)
       => /\ reconnectTimer' = "pending"
          /\ Dispatched(emitted', "max_reconnect_reached") = 0]_vars

\* C28: the attempt counter stays within 0..cap; a step raises it only by
\* one and only when a reconnect timer fires, and lowers it only to 0 and
\* only on a successful handshake or in disconnect().
C28_CounterWithinCap ==
  [][/\ reconnectAttempts' \in 0..Cap
     /\ reconnectAttempts' > reconnectAttempts
          => (lastCall'.op = "timer" /\ reconnectAttempts' = reconnectAttempts + 1)
     /\ reconnectAttempts' < reconnectAttempts
          => (reconnectAttempts' = 0
              /\ lastCall'.op \in {"socket.connect", "disconnect"})]_vars

C28_Witness ==
  /\ lastCall.op = "timer"
  /\ Cap = 2
  /\ reconnectAttempts = Cap

\* entries the hook's triage closures add to its notifications list in the
\* dispatches q of one step
NotificationsAdded(q) ==
  LET RECURSIVE Sum(_)
      Sum(k) == IF k = 0 THEN 0
                ELSE Sum(k - 1) +
                     (IF q[k].event \in DomainTags
                      THEN Cardinality({j \in 1..Len(q[k].invoked) :
                                          q[k].invoked[j] \in HookClosures})
                      ELSE 0)
  IN Sum(Len(q))

\* C29: once the hook has connected, every triage event received from the
\* client adds exactly one entry to the notifications list.
C29_OneNotificationPerEvent ==
  (lastCall.op = "socket.event" /\ eventListeners["triage.completed"] # <<>>)
    => NotificationsAdded(emitted) = 1

\* C30: after the consumer disconnected a connected client with the hook's
\* disconnect(), the auto-connect effect starts no connect() before the
\* consumer calls connect() again.
C30_HookStaysDisconnected ==
  lastCall.op = "hook.effect" => userClosed # "connected"

====
